---- MODULE Spec2Model ----
(***************************************************************************)
(* Model of the interactive element selector of lovpen-sider:              *)
(*   - class ElementSelector (packages/shared, src/unnamed/part_003)       *)
(*   - its content-script subclass SuperSiderElementSelector and the       *)
(*     runtime message handler (src/pages/content/src/matches/all/index.ts)*)
(* The page (element tree), the page address and the constructor options   *)
(* are inputs fixed at load time; the selector's fields, the document's    *)
(* listener registry, the timer queue and the elements' styles are state.  *)
(***************************************************************************)
EXTENDS Integers, Sequences, FiniteSets, TLC

(***************************************************************************)
(* Bounds of the model.                                                    *)
(***************************************************************************)
\* keydown handlers the document may carry at once (guards the commands
\* that attach one more navigation handler)
MaxHandlers == 2
\* saturation of the counter of debounced moves since the last timer event
MaxBurst == 5

(***************************************************************************)
(* The page. A page d gives for every element (numbered in document order, *)
(* 0 the document element, 1 body) its parent, tag, id, class list,        *)
(* geometry and text, and the viewport size.                               *)
(***************************************************************************)
Null == -1
Html == 0
Body == 1

Elems(d) == DOMAIN d.parent

parentElement(d, e) == IF e \in Elems(d) THEN d.parent[e] ELSE Null

\* parent.children
children(d, p) == { c \in Elems(d) : d.parent[c] = p }

SetMin(S) == CHOOSE x \in S : \A y \in S : x <= y
SetMax(S) == CHOOSE x \in S : \A y \in S : x >= y

firstElementChild(d, e) ==
  IF children(d, e) = {} THEN Null ELSE SetMin(children(d, e))

previousElementSibling(d, e) ==
  LET before == { c \in children(d, parentElement(d, e)) : c < e }
  IN IF e = Null \/ parentElement(d, e) = Null \/ before = {} THEN Null ELSE SetMax(before)

nextElementSibling(d, e) ==
  LET after == { c \in children(d, parentElement(d, e)) : c > e }
  IN IF e = Null \/ parentElement(d, e) = Null \/ after = {} THEN Null ELSE SetMin(after)

\* 1-based position of e among all element children of its parent
ChildIndex(d, e) == Cardinality({ c \in children(d, parentElement(d, e)) : c <= e })

VARIABLES
  dom,                 \* the page: tagName, id, className, geometry, text of each element
  isSelecting,         \* ElementSelector.isSelecting
  isNavigatingMode,    \* ElementSelector.isNavigatingMode
  selectedElement,     \* ElementSelector.selectedElement (Null = null)
  markdownUpdateTimer, \* "null" | "pending" | "fired": the handle field and its timer
  timers,              \* number of debounce timers pending in the timer queue
  originalStyles,      \* the highlight ledger: element -> style snapshot
  style,               \* each element's outline/backgroundColor
  hoverSets,           \* hover/click/cancel listener sets attached to document
  hoverRef,            \* TRUE iff the set the handler fields reference is attached
  navHandlers,         \* navigation keydown handlers attached to document
  navRef,              \* TRUE iff navigationKeyDownHandler references an attached handler
  cursor,              \* document.body.style.cursor
  statusMessage,       \* text of the #lovpensider-status element ("" = none)
  out,                 \* chrome.runtime.sendMessage calls of the last step
  response,            \* sendResponse of the last command ("" = not a command)
  url,                 \* window.location.href
  userPresets,         \* the sitePresets option the constructor was given
  lastOp,              \* the last command or event: [op, arg]
  queried,             \* document.querySelector calls of the preset matcher, last step
  scorerInvoked,       \* whether the last step ran candidate collection and ranking
  burst,               \* debounced moves of the current run of arrow keys
  cleanup,             \* the cleanup calls of the last step, in the order made
  session,             \* what the current (or last) session emitted so far
  panel                \* the side panel: its pending retry timers and its last applyDomPath call

svars == <<isSelecting, isNavigatingMode, selectedElement, markdownUpdateTimer,
           timers, originalStyles, style, hoverSets, hoverRef, navHandlers,
           navRef, cursor, statusMessage, out>>

(***************************************************************************)
(* Styles.                                                                 *)
(***************************************************************************)
PageStyle == [outline |-> "none", backgroundColor |-> "transparent"]
HighlightStyle ==
  [outline |-> "2px solid #3b82f6", backgroundColor |-> "rgba(59, 130, 246, 0.1)"]

HoverMessage == "hover-click-esc"
NavigationMessage == "arrows-enter-esc"

(***************************************************************************)
(* The selector and the document as one record, so that a handler is a     *)
(* function from state to state and handlers compose as the code calls     *)
(* them.                                                                   *)
(***************************************************************************)
\* out and sends record what the step under way emitted and how many
\* debounce timers it started, log the cleanup calls it made
Cur ==
  [isSelecting |-> isSelecting, isNavigatingMode |-> isNavigatingMode,
   selectedElement |-> selectedElement, markdownUpdateTimer |-> markdownUpdateTimer,
   timers |-> timers, originalStyles |-> originalStyles, style |-> style,
   hoverSets |-> hoverSets, hoverRef |-> hoverRef, navHandlers |-> navHandlers,
   navRef |-> navRef, cursor |-> cursor, statusMessage |-> statusMessage,
   out |-> << >>, sends |-> 0, log |-> << >>]

Commit(s) ==
  /\ isSelecting' = s.isSelecting
  /\ isNavigatingMode' = s.isNavigatingMode
  /\ selectedElement' = s.selectedElement
  /\ markdownUpdateTimer' = s.markdownUpdateTimer
  /\ timers' = s.timers
  /\ originalStyles' = s.originalStyles
  /\ style' = s.style
  /\ hoverSets' = s.hoverSets
  /\ hoverRef' = s.hoverRef
  /\ navHandlers' = s.navHandlers
  /\ navRef' = s.navRef
  /\ cursor' = s.cursor
  /\ statusMessage' = s.statusMessage
  /\ out' = s.out

(***************************************************************************)
(* Selectors. A selector is a sequence of compound selectors, each with    *)
(* the combinator that links it to the compound on its left:               *)
(*   tag ("" = none), id ("" = none), classes, nth (:nth-child(k), 0 =     *)
(*   none), comb (">" child, " " descendant).                              *)
(* The empty sequence is the empty string; a compound that names nothing   *)
(* is a syntax error (as in "div > > p").                                  *)
(***************************************************************************)
Compound(tag, id, classes, nth, comb) ==
  [tag |-> tag, id |-> id, classes |-> classes, nth |-> nth, comb |-> comb]

TagSel(tag) == <<Compound(tag, "", << >>, 0, ">")>>
IdSel(id) == <<Compound("", id, << >>, 0, ">")>>
ClassSel(cls) == <<Compound("", "", <<cls>>, 0, ">")>>

Range(f) == { f[i] : i \in DOMAIN f }

\* Array.prototype.slice(0, n)
Slice(seq, n) == IF Len(seq) <= n THEN seq ELSE SubSeq(seq, 1, n)

NullResult == Null
SyntaxError == -2

IsEmptyCompound(c) == c.tag = "" /\ c.id = "" /\ c.classes = << >> /\ c.nth = 0

IsWellFormed(sel) ==
  /\ Len(sel) > 0
  /\ \A i \in 1..Len(sel) : ~IsEmptyCompound(sel[i])

\* Element e matches compound c on page d (Selectors: type, #id, .class,
\* :nth-child counts every element sibling).
MatchesCompound(d, e, c) ==
  /\ c.tag = "" \/ c.tag = d.tagName[e]
  /\ c.id = "" \/ c.id = d.id[e]
  /\ \A k \in 1..Len(c.classes) : c.classes[k] \in Range(d.className[e])
  /\ c.nth = 0 \/ c.nth = ChildIndex(d, e)

Ancestors(d, e) ==
  LET RECURSIVE Up(_)
      Up(x) == IF parentElement(d, x) = Null THEN {}
               ELSE {parentElement(d, x)} \cup Up(parentElement(d, x))
  IN Up(e)

RECURSIVE MatchesSelector(_, _, _, _)
MatchesSelector(d, e, sel, i) ==
  /\ MatchesCompound(d, e, sel[i])
  /\ \/ i = 1
     \/ /\ sel[i].comb = ">"
        /\ parentElement(d, e) # Null
        /\ MatchesSelector(d, parentElement(d, e), sel, i - 1)
     \/ /\ sel[i].comb = " "
        /\ \E a \in Ancestors(d, e) : MatchesSelector(d, a, sel, i - 1)

\* the elements connected to the document: an element the page removed
\* (Element.remove) has no parent and keeps its own subtree
InDocument(d) == { e \in Elems(d) : e = Html \/ Html \in Ancestors(d, e) }

\* document.querySelector: the first match in document order, null when
\* there is none, a SyntaxError exception for a malformed selector
querySelector(d, sel) ==
  IF ~IsWellFormed(sel) THEN SyntaxError
  ELSE LET hits == { e \in Elems(d) : MatchesSelector(d, e, sel, Len(sel)) }
       IN IF hits = {} THEN NullResult ELSE SetMin(hits)

(***************************************************************************)
(* ElementSelector.generateDOMPath                                         *)
(***************************************************************************)
SameTagSiblings(d, e) ==
  { c \in children(d, parentElement(d, e)) : d.tagName[c] = d.tagName[e] }

\* the index the code computes: 1-based position among same-tag siblings
SameTagIndex(d, e) == Cardinality({ c \in SameTagSiblings(d, e) : c <= e })

PathSegment(d, e) ==
  Compound(d.tagName[e], d.id[e], Slice(d.className[e], 3),
           IF parentElement(d, e) # Null /\ Cardinality(SameTagSiblings(d, e)) > 1
             THEN SameTagIndex(d, e) ELSE 0,
           ">")

RECURSIVE generateDOMPath(_, _)
generateDOMPath(d, e) ==
  IF e = Null \/ e = Body \/ e = Html THEN << >>
  ELSE Append(generateDOMPath(d, parentElement(d, e)), PathSegment(d, e))

(***************************************************************************)
(* Highlight ledger.                                                       *)
(***************************************************************************)
\* the step under way has reached this cleanup call
Did(s, call) == [s EXCEPT !.log = Append(@, call)]

\* Map.prototype.set
MapSet(m, k, v) == [x \in (DOMAIN m) \cup {k} |-> IF x = k THEN v ELSE m[x]]

\* mutant: the ledger is cleared without restoring the styles
removeHighlight_ClearOnly(s) ==
  Did([s EXCEPT !.originalStyles = << >>], "removeHighlight")

removeHighlight(s) ==
  Did([s EXCEPT !.style = [e \in DOMAIN s.style |->
                             IF e \in DOMAIN s.originalStyles
                               THEN s.originalStyles[e] ELSE s.style[e]],
                !.originalStyles = << >>],
      "removeHighlight")

\* mutant: the root containers are highlighted like any element
highlightElement_NoRootGuard(s, element) ==
  IF element = Null THEN s
  ELSE [s EXCEPT !.originalStyles = MapSet(s.originalStyles, element, s.style[element]),
                 !.style[element] = HighlightStyle]

highlightElement(s, element) ==
  IF element = Null \/ element = Body \/ element = Html THEN s
  ELSE [s EXCEPT !.originalStyles = MapSet(s.originalStyles, element, s.style[element]),
                 !.style[element] = HighlightStyle]

highlightSelectedElement(s) ==
  LET s1 == removeHighlight(s)
  IN IF s1.selectedElement # Null THEN highlightElement(s1, s1.selectedElement) ELSE s1

(***************************************************************************)
(* Debounce timer.                                                         *)
(***************************************************************************)
\* clearTimeout(this.markdownUpdateTimer) when the field is set: a pending
\* timer leaves the queue, a timer that has fired is not there any more
\* mutant: clearTimeout leaves the timer in the queue
clearTimeout_Keep(s) == s

clearTimeout(s) ==
  IF s.markdownUpdateTimer = "pending" THEN [s EXCEPT !.timers = @ - 1] ELSE s

\* mutant: the pending timer is not cleared before the new one is set
sendElementDataWithDebounce_NoClear(s) ==
  [s EXCEPT !.timers = @ + 1, !.markdownUpdateTimer = "pending", !.sends = @ + 1]

sendElementDataWithDebounce(s) ==
  LET s1 == IF s.markdownUpdateTimer # "null" THEN clearTimeout(s) ELSE s
  IN [s1 EXCEPT !.timers = @ + 1, !.markdownUpdateTimer = "pending",
                 !.sends = @ + 1]

\* if (this.markdownUpdateTimer) { clearTimeout(...); this.markdownUpdateTimer = null }
cancelTimer(s) ==
  Did(IF s.markdownUpdateTimer # "null"
        THEN [clearTimeout(s) EXCEPT !.markdownUpdateTimer = "null"]
        ELSE s,
      "cancelTimer")

(***************************************************************************)
(* Listener registry of document.                                          *)
(***************************************************************************)
\* the four addEventListener calls of startSelection, on freshly bound handlers
attachHoverListeners(s) == [s EXCEPT !.hoverSets = @ + 1, !.hoverRef = TRUE]

\* the four guarded removeEventListener calls on the handler fields
detachHoverListeners(s) ==
  Did(IF s.hoverRef THEN [s EXCEPT !.hoverSets = @ - 1, !.hoverRef = FALSE] ELSE s,
      "detachHoverListeners")

attachNavigationListener(s) == [s EXCEPT !.navHandlers = @ + 1, !.navRef = TRUE]

detachNavigationListener(s) ==
  Did(IF s.navRef THEN [s EXCEPT !.navHandlers = @ - 1, !.navRef = FALSE] ELSE s,
      "detachNavigationListener")

(***************************************************************************)
(* Notifications of the content-script subclass.                           *)
(***************************************************************************)
Emit(s, msg) == [s EXCEPT !.out = Append(@, msg)]

ElementMessage(d, s, action) ==
  [action |-> action, element |-> s.selectedElement,
   domPath |-> generateDOMPath(d, s.selectedElement)]

PlainMessage(action) == [action |-> action, element |-> Null, domPath |-> << >>]

\* mutant: the confirmation is sent without the navigation-exited notice
onElementSelected_NoExitNotice(d, s) ==
  IF s.selectedElement # Null
    THEN Emit(s, ElementMessage(d, s, "elementSelected")) ELSE s

\* SuperSiderElementSelector.onElementSelected
onElementSelected(d, s) ==
  LET s1 == IF s.selectedElement # Null
              THEN Emit(s, ElementMessage(d, s, "elementSelected")) ELSE s
  IN Emit(s1, PlainMessage("navigationExited"))

\* SuperSiderElementSelector.onElementDataUpdate
onElementDataUpdate(d, s) ==
  IF s.selectedElement # Null
    THEN Emit(s, ElementMessage(d, s, "elementDataUpdate")) ELSE s

\* SuperSiderElementSelector.onSelectionCancelled
onSelectionCancelled(s) == Emit(s, PlainMessage("selectionStopped"))

(***************************************************************************)
(* ElementSelector: session control.                                       *)
(***************************************************************************)
\* mutant: no guard against a second start
startSelection_NoGuard(s) ==
  [attachHoverListeners(s) EXCEPT !.isSelecting = TRUE,
                                  !.cursor = "crosshair",
                                  !.statusMessage = HoverMessage]

startSelection(s) ==
  IF s.isSelecting THEN s
  ELSE [attachHoverListeners(s) EXCEPT !.isSelecting = TRUE,
                                       !.cursor = "crosshair",
                                       !.statusMessage = HoverMessage]

\* mutant: the cleanup runs even when no session is active
stopSelection_NoGuard(s) ==
  LET s1 == [s EXCEPT !.isSelecting = FALSE, !.isNavigatingMode = FALSE,
                      !.cursor = ""]
      s2 == detachNavigationListener(detachHoverListeners(s1))
      s3 == [removeHighlight(s2) EXCEPT !.statusMessage = ""]
  IN cancelTimer(s3)

stopSelection(s) ==
  IF ~s.isSelecting /\ ~s.isNavigatingMode THEN s
  ELSE LET s1 == [s EXCEPT !.isSelecting = FALSE, !.isNavigatingMode = FALSE,
                           !.cursor = ""]
           s2 == detachNavigationListener(detachHoverListeners(s1))
           s3 == [removeHighlight(s2) EXCEPT !.statusMessage = ""]
       IN cancelTimer(s3)

exitNavigationMode(s) ==
  LET s1 == detachNavigationListener([s EXCEPT !.isNavigatingMode = FALSE])
      s2 == [removeHighlight(s1) EXCEPT !.statusMessage = ""]
  IN cancelTimer(s2)

enterNavigationMode(s) ==
  LET s1 == [s EXCEPT !.isNavigatingMode = TRUE, !.isSelecting = FALSE]
      s2 == attachNavigationListener(detachHoverListeners(s1))
      s3 == sendElementDataWithDebounce(highlightSelectedElement(s2))
  IN [s3 EXCEPT !.statusMessage = NavigationMessage]

(***************************************************************************)
(* ElementSelector: event handlers.                                        *)
(***************************************************************************)
handleMouseOver(s, target) ==
  IF ~s.isSelecting THEN s
  ELSE highlightElement(removeHighlight(s), target)

\* options.enableNavigation is true in the content script
handleClick(s, target) ==
  IF ~s.isSelecting THEN s
  ELSE enterNavigationMode([s EXCEPT !.selectedElement = target])

\* mutant: Escape stops the session without the notification
handleKeyDown_Silent(s, key) ==
  IF ~s.isSelecting THEN s
  ELSE IF key = "Escape" THEN stopSelection(s)
  ELSE s

handleKeyDown(s, key) ==
  IF ~s.isSelecting THEN s
  ELSE IF key = "Escape" THEN onSelectionCancelled(stopSelection(s))
  ELSE s

ArrowKeys == {"ArrowUp", "ArrowDown", "ArrowLeft", "ArrowRight"}
Keys == ArrowKeys \cup {"Escape", "Enter", "a"}

\* the element the switch of handleNavigationKeyDown picks
NavigationTarget(d, e, key) ==
  CASE key = "ArrowUp" -> parentElement(d, e)
    [] key = "ArrowDown" -> firstElementChild(d, e)
    [] key = "ArrowLeft" -> previousElementSibling(d, e)
    [] key = "ArrowRight" -> nextElementSibling(d, e)
    [] OTHER -> Null

\* mutant: the root containers are not excluded
MoveAccepted_NoRootCheck(newElement) == newElement # Null

\* if (newElement && newElement !== document.body && newElement !== documentElement)
MoveAccepted(newElement) ==
  newElement # Null /\ newElement # Body /\ newElement # Html

handleNavigationKeyDown(d, s, key) ==
  IF ~s.isNavigatingMode \/ s.selectedElement = Null THEN s
  ELSE IF key = "Escape" THEN onSelectionCancelled(stopSelection(s))
  ELSE IF key = "Enter" THEN onElementSelected(d, exitNavigationMode(s))
  ELSE LET newElement == NavigationTarget(d, s.selectedElement, key)
       IN IF MoveAccepted(newElement)
            THEN sendElementDataWithDebounce(
                   highlightSelectedElement([s EXCEPT !.selectedElement = newElement]))
            ELSE s

(***************************************************************************)
(* Site presets. Addresses and patterns are sequences of tokens (scheme,   *)
(* host, path pieces); String.prototype.includes is the substring test on  *)
(* them.                                                                   *)
(***************************************************************************)
includes(str, pattern) ==
  \E k \in 0..(Len(str) - Len(pattern)) :
    \A j \in 1..Len(pattern) : str[k + j] = pattern[j]

Preset(patterns, selectors, priority) ==
  [patterns |-> patterns, selectors |-> selectors, priority |-> priority,
   hasPriority |-> TRUE]

\* a rule whose optional priority is absent
PresetNoPriority(patterns, selectors) ==
  [patterns |-> patterns, selectors |-> selectors, priority |-> 0,
   hasPriority |-> FALSE]

\* preset.priority || 0
Priority(preset) == IF preset.hasPriority THEN preset.priority ELSE 0

DefaultPriority == 10

defaultPresets ==
  <<Preset(<< <<"https://", "mp.weixin.qq.com", "/s/">>, <<"mp.weixin.qq.com", "/s/">> >>,
           <<IdSel("img-content")>>, DefaultPriority),
    Preset(<< <<"zhihu.com", "/question">>, <<"zhihu.com", "/p/">> >>,
           <<ClassSel("Post-RichTextContainer"), ClassSel("QuestionAnswer-content"),
             ClassSel("RichContent-inner")>>, DefaultPriority),
    Preset(<< <<"juejin.cn", "/post">>, <<"juejin.im", "/post">> >>,
           <<ClassSel("article-content"), ClassSel("markdown-body")>>, DefaultPriority),
    Preset(<< <<"medium.com">> >>,
           <<TagSel("article"), ClassSel("meteredContent"),
             <<Compound("main", "", << >>, 0, ">"), Compound("article", "", << >>, 0, " ")>> >>,
           DefaultPriority),
    Preset(<< <<"dev.to">> >>,
           <<IdSel("article-body"), ClassSel("crayons-article__body")>>, DefaultPriority),
    Preset(<< <<"stackoverflow.com", "/questions">> >>,
           <<ClassSel("answercell"), ClassSel("question"), ClassSel("post-text")>>,
           DefaultPriority),
    Preset(<< <<"github.com">> >>,
           <<ClassSel("markdown-body"), IdSel("readme"), ClassSel("comment-body")>>,
           DefaultPriority),
    Preset(<< <<"wikipedia.org", "/wiki">> >>,
           <<IdSel("mw-content-text"), ClassSel("mw-parser-output")>>, DefaultPriority)>>

\* constructor: [...this.defaultPresets, ...(options.sitePresets || [])]
mergedPresets(presets) == defaultPresets \o presets

\* mutant: the rules are scanned in input order
sortPresets_Unsorted(presets) == presets

\* mutant: rules of equal priority come out in reverse input order
RECURSIVE sortPresets_TiesReversed(_)
sortPresets_TiesReversed(presets) ==
  IF presets = << >> THEN << >>
  ELSE LET top == SetMax({ Priority(presets[i]) : i \in 1..Len(presets) })
           k == SetMax({ i \in 1..Len(presets) : Priority(presets[i]) = top })
           rest == [i \in 1..(Len(presets) - 1) |->
                      IF i < k THEN presets[i] ELSE presets[i + 1]]
       IN <<presets[k]>> \o sortPresets_TiesReversed(rest)

\* [...presets].sort((a, b) => (b.priority || 0) - (a.priority || 0)):
\* descending priority, stable
RECURSIVE sortPresets(_)
sortPresets(presets) ==
  IF presets = << >> THEN << >>
  ELSE LET top == SetMax({ Priority(presets[i]) : i \in 1..Len(presets) })
           k == SetMin({ i \in 1..Len(presets) : Priority(presets[i]) = top })
           rest == [i \in 1..(Len(presets) - 1) |->
                      IF i < k THEN presets[i] ELSE presets[i + 1]]
       IN <<presets[k]>> \o sortPresets(rest)

MinWidth == 100
MinHeight == 100
MinTextLength == 50

isValidContentElement(d, e) ==
  /\ ~(d.width[e] < MinWidth \/ d.height[e] < MinHeight)
  /\ ~(d.textLength[e] < MinTextLength)
  /\ ~d.hidden[e]

\* the selector loop of one matching preset; calls records every
\* document.querySelector call with the priority of the rule it belongs to
RECURSIVE scanSelectors(_, _, _, _)
scanSelectors(d, preset, j, calls) ==
  IF j > Len(preset.selectors) THEN [element |-> Null, queried |-> calls]
  ELSE LET element == querySelector(d, preset.selectors[j])
           q == Append(calls, [priority |-> Priority(preset),
                                 selector |-> preset.selectors[j]])
       IN IF element # NullResult /\ isValidContentElement(d, element)
            THEN [element |-> element, queried |-> q]
            ELSE scanSelectors(d, preset, j + 1, q)

RECURSIVE scanPresets(_, _, _, _, _)
scanPresets(d, currentUrl, sorted, i, calls) ==
  IF i > Len(sorted) THEN [element |-> Null, queried |-> calls]
  ELSE IF \E k \in 1..Len(sorted[i].patterns) : includes(currentUrl, sorted[i].patterns[k])
    THEN LET r == scanSelectors(d, sorted[i], 1, calls)
         IN IF r.element # Null THEN r
            ELSE scanPresets(d, currentUrl, sorted, i + 1, r.queried)
    ELSE scanPresets(d, currentUrl, sorted, i + 1, calls)

findElementByPresets(d, currentUrl, presets) ==
  IF Len(presets) = 0 THEN [element |-> Null, queried |-> << >>]
  ELSE scanPresets(d, currentUrl, sortPresets(presets), 1, << >>)

(***************************************************************************)
(* Heuristic content scorer. Scores are in thousandths (fixed point); the  *)
(* two quotients of the code (text ratio, distance ratio) are rounded down *)
(* to a thousandth.                                                        *)
(***************************************************************************)
\* the vocabulary words a name of the modelled pages contains as a substring
\* (String.prototype.includes on the lower-cased className / id)
KeywordsIn(name) ==
  CASE name = "sidebar-nav" -> {"sidebar", "nav"}
    [] name = "markdown-body" -> {"body"}
    [] name = "entry" -> {"entry"}
    [] name = "footer" -> {"footer"}
    [] name = "readme" -> {"ad"}
    [] name = "main-content" -> {"main", "content"}
    [] name = "post-content" -> {"post", "content"}
    [] name = "content" -> {"content"}
    [] name = "nav" -> {"nav"}
    [] name = "nav-wrapper" -> {"nav", "wrapper"}
    [] name = "wrapper" -> {"wrapper"}
    [] OTHER -> {}

classNameIncludes(d, e, word) ==
  \E k \in 1..Len(d.className[e]) : word \in KeywordsIn(d.className[e][k])

idIncludes(d, e, word) == word \in KeywordsIn(d.id[e])

Descendants(d, e) == { x \in Elems(d) : e \in Ancestors(d, x) }

\* simple selectors of the scorer: [kind, name]
Sel(kind, name) == [kind |-> kind, name |-> name]

MatchesSimple(d, e, sel) ==
  CASE sel.kind = "tag" -> d.tagName[e] = sel.name
    [] sel.kind = "class" -> sel.name \in Range(d.className[e])
    [] sel.kind = "id" -> d.id[e] = sel.name
    [] sel.kind = "role" -> d.role[e] = sel.name
    [] sel.kind = "classContains" -> classNameIncludes(d, e, sel.name)
    [] OTHER -> FALSE

\* a set of elements as the sequence document order gives
RECURSIVE InDocumentOrder(_)
InDocumentOrder(S) ==
  IF S = {} THEN << >> ELSE <<SetMin(S)>> \o InDocumentOrder(S \ {SetMin(S)})

querySelectorAll(d, sel) == InDocumentOrder({ e \in Elems(d) : MatchesSimple(d, e, sel) })

\* element.querySelector(sel): the first matching descendant
querySelectorIn(d, element, sel) ==
  LET hits == { e \in Descendants(d, element) : MatchesSimple(d, e, sel) }
  IN IF hits = {} THEN Null ELSE SetMin(hits)

CountDescendants(d, e, tags) ==
  Cardinality({ x \in Descendants(d, e) : d.tagName[x] \in tags })

\* integer square root, rounded down
RECURSIVE SqrtSearch(_, _, _)
SqrtSearch(n, lo, hi) ==
  IF lo >= hi THEN lo
  ELSE LET mid == (lo + hi + 1) \div 2
       IN IF mid * mid <= n THEN SqrtSearch(n, mid, hi) ELSE SqrtSearch(n, lo, mid - 1)

ISqrt(n) == SqrtSearch(n, 0, 4096)

Min(a, b) == IF a <= b THEN a ELSE b

TextDensityThreshold == 5

\* thousandths of calculateTextDensity
calculateTextDensity(d, e) ==
  IF d.textLength[e] = 0 THEN 0
  ELSE (5000 * d.textLength[e]) \div d.htmlLength[e]
       + 2000 * CountDescendants(d, e, {"p"})
       + Min(d.textLength[e], 10000)

\* thousandths of calculatePositionScore; distances in half pixels
calculatePositionScore(d, e) ==
  LET dx == (2 * d.left[e] + d.width[e]) - d.innerWidth
      dy == (2 * d.top[e] + d.height[e]) - d.innerHeight
      distanceFromCenter == ISqrt(dx * dx + dy * dy)
      maxDistance == ISqrt(d.innerWidth * d.innerWidth + d.innerHeight * d.innerHeight)
  IN 20000 - (20000 * distanceFromCenter) \div maxDistance

calculateSizeScore(d, e) ==
  LET viewportArea == d.innerWidth * d.innerHeight
      elementArea == d.width[e] * d.height[e]
  IN IF 10 * elementArea >= 3 * viewportArea /\ 10 * elementArea <= 7 * viewportArea THEN 20
     ELSE IF 10 * elementArea >= viewportArea /\ 10 * elementArea <= 9 * viewportArea THEN 10
     ELSE 0

calculateStructureScore(d, e) ==
  Min(CountDescendants(d, e, {"h1", "h2", "h3", "h4", "h5", "h6"}) * 5, 25)
  + Min(CountDescendants(d, e, {"p"}) * 2, 20)
  + Min(CountDescendants(d, e, {"ul", "ol"}) * 3, 15)
  + Min(CountDescendants(d, e, {"img"}) * 2, 10)

unwantedKeywords ==
  {"nav", "navigation", "menu", "header", "footer", "sidebar", "aside", "ad",
   "advertisement", "banner", "promo", "popup", "modal", "comment", "reply",
   "share", "social", "related", "recommend"}

\* mutant: no element is taken for page chrome
isUnwantedElement_Never(d, e) == FALSE

isUnwantedElement(d, e) ==
  \E keyword \in unwantedKeywords :
    classNameIncludes(d, e, keyword) \/ idIncludes(d, e, keyword)

goodNames == {"main", "content", "article", "post", "body", "text", "story", "entry"}

semanticTagScore(tag) ==
  CASE tag = "main" -> 50 [] tag = "article" -> 45 [] tag = "section" -> 20 [] OTHER -> 0

UnwantedPenalty == 100

\* thousandths of calculateContentScore
calculateContentScore(d, e) ==
  1000 * ( semanticTagScore(d.tagName[e])
         + 30 * Cardinality({ n \in goodNames : classNameIncludes(d, e, n) })
         + 35 * Cardinality({ n \in goodNames : idIncludes(d, e, n) })
         + calculateSizeScore(d, e)
         + calculateStructureScore(d, e)
         - (IF isUnwantedElement(d, e) THEN UnwantedPenalty ELSE 0) )
  + 10 * calculateTextDensity(d, e)
  + calculatePositionScore(d, e)

findTextDenseElements(d) ==
  SelectSeq(InDocumentOrder({ e \in Elems(d) : d.tagName[e] \in {"div", "section", "article", "main"} }),
            LAMBDA e : calculateTextDensity(d, e) > 1000 * TextDensityThreshold)

semanticSelectors ==
  <<Sel("tag", "main"), Sel("tag", "article"), Sel("role", "main"), Sel("class", "main"),
    Sel("class", "content"), Sel("class", "article"), Sel("class", "post"),
    Sel("id", "main"), Sel("id", "content"), Sel("id", "article"), Sel("id", "post")>>

contentClassNames ==
  <<"content", "main", "article", "post", "body", "text", "story", "entry",
    "container", "wrapper">>

RECURSIVE Flatten(_)
Flatten(seqs) == IF seqs = << >> THEN << >> ELSE Head(seqs) \o Flatten(Tail(seqs))

\* Array.from(new Set(seq)): first occurrences, in order
RECURSIVE Dedup(_)
Dedup(seq) ==
  IF seq = << >> THEN << >>
  ELSE LET init == Dedup(SubSeq(seq, 1, Len(seq) - 1))
           last == seq[Len(seq)]
       IN IF last \in Range(init) THEN init ELSE Append(init, last)

getContentCandidates(d) ==
  Dedup( Flatten([k \in 1..Len(semanticSelectors) |->
                    querySelectorAll(d, semanticSelectors[k])])
         \o Flatten([k \in 1..Len(contentClassNames) |->
                    SelectSeq(querySelectorAll(d, Sel("classContains", contentClassNames[k])),
                              LAMBDA e : isValidContentElement(d, e))])
         \o findTextDenseElements(d) )

\* mutant: of the elements of maximum score the first in the document
BestOf_DocumentOrder(d, seq) ==
  LET top == SetMax({ calculateContentScore(d, seq[k]) : k \in 1..Len(seq) })
  IN SetMin({ seq[k] : k \in { j \in 1..Len(seq) : calculateContentScore(d, seq[j]) = top } })

\* the first element of maximum score: a stable sort by descending score,
\* then index 0
BestOf(d, seq) ==
  LET top == SetMax({ calculateContentScore(d, seq[k]) : k \in 1..Len(seq) })
  IN seq[SetMin({ k \in 1..Len(seq) : calculateContentScore(d, seq[k]) = top })]

contentSelectors ==
  <<Sel("tag", "article"), Sel("tag", "main"), Sel("role", "main"), Sel("class", "content"),
    Sel("class", "post-content"), Sel("class", "article-content"),
    Sel("class", "entry-content"), Sel("class", "text"), Sel("class", "body"),
    Sel("class", "story"), Sel("class", "description")>>

\* mutant: the more specific selectors are looked up in the whole document
refineCandidateSelection_WholeDocument(d, element) ==
  LET hits == { e \in Elems(d) \ {element} :
                  /\ \E k \in 1..Len(contentSelectors) : MatchesSimple(d, e, contentSelectors[k])
                  /\ isValidContentElement(d, e) }
  IN IF hits = {} THEN Null ELSE SetMin(hits)

RECURSIVE refineCandidateSelection(_, _)
refineCandidateSelection(d, element) ==
  LET hit == { k \in 1..Len(contentSelectors) :
                 /\ querySelectorIn(d, element, contentSelectors[k]) # Null
                 /\ isValidContentElement(d, querySelectorIn(d, element, contentSelectors[k])) }
  IN IF hit # {}
       THEN LET child == querySelectorIn(d, element, contentSelectors[SetMin(hit)])
                furtherRefined == refineCandidateSelection(d, child)
            IN IF furtherRefined # Null THEN furtherRefined ELSE child
     ELSE LET valid == SelectSeq(InDocumentOrder(children(d, element)),
                                 LAMBDA c : isValidContentElement(d, c))
          IN IF valid = << >> THEN Null
             ELSE LET bestChild == BestOf(d, valid)
                  IN IF 10 * calculateContentScore(d, bestChild)
                          > 12 * calculateContentScore(d, element)
                       THEN LET furtherRefined == refineCandidateSelection(d, bestChild)
                            IN IF furtherRefined # Null THEN furtherRefined ELSE bestChild
                       ELSE Null

\* mutant: the penalty is a veto, elements taken for page chrome are not ranked
rankContentCandidates_Veto(d, candidates) ==
  LET kept == SelectSeq(candidates, LAMBDA e : ~isUnwantedElement(d, e))
  IN IF Len(kept) = 0 THEN Null
     ELSE LET bestCandidate == BestOf(d, kept)
              refinedCandidate == refineCandidateSelection(d, bestCandidate)
          IN IF refinedCandidate # Null THEN refinedCandidate ELSE bestCandidate

rankContentCandidates(d, candidates) ==
  IF Len(candidates) = 0 THEN Null
  ELSE LET bestCandidate == BestOf(d, candidates)
           refinedCandidate == refineCandidateSelection(d, bestCandidate)
       IN IF refinedCandidate # Null THEN refinedCandidate ELSE bestCandidate

\* mutant: the scorer runs even when a preset yields an element
findMainContentElement_AlwaysScore(d, currentUrl, presets) ==
  LET preset == findElementByPresets(d, currentUrl, presets)
      ranked == rankContentCandidates(d, getContentCandidates(d))
  IN [element |-> IF preset.element # Null THEN preset.element ELSE ranked,
      queried |-> preset.queried, scorer |-> TRUE]

\* element: the result; queried: the querySelector calls of the preset
\* matcher; scorer: whether candidate collection and ranking ran
findMainContentElement(d, currentUrl, presets) ==
  LET preset == findElementByPresets(d, currentUrl, presets)
  IN IF preset.element # Null
       THEN [element |-> preset.element, queried |-> preset.queried, scorer |-> FALSE]
       ELSE [element |-> rankContentCandidates(d, getContentCandidates(d)),
             queried |-> preset.queried, scorer |-> TRUE]

\* mutant: the element is highlighted without entering navigation
smartSelect_NoNavigation(s, mainContent) ==
  IF mainContent # Null
    THEN highlightSelectedElement([s EXCEPT !.selectedElement = mainContent])
    ELSE s

\* smartSelect with the element findMainContentElement returned
smartSelect(s, mainContent) ==
  IF mainContent # Null
    THEN enterNavigationMode([s EXCEPT !.selectedElement = mainContent])
    ELSE s

(***************************************************************************)
(* Event dispatch: document runs every attached listener of the event.     *)
(***************************************************************************)
RECURSIVE MouseOverTimes(_, _, _)
MouseOverTimes(s, target, n) ==
  IF n = 0 THEN s ELSE MouseOverTimes(handleMouseOver(s, target), target, n - 1)

RECURSIVE ClickTimes(_, _, _)
ClickTimes(s, target, n) ==
  IF n = 0 THEN s ELSE ClickTimes(handleClick(s, target), target, n - 1)

RECURSIVE KeyDownTimes(_, _, _)
KeyDownTimes(s, key, n) ==
  IF n = 0 THEN s ELSE KeyDownTimes(handleKeyDown(s, key), key, n - 1)

RECURSIVE NavigationKeyDownTimes(_, _, _, _)
NavigationKeyDownTimes(d, s, key, n) ==
  IF n = 0 THEN s
  ELSE NavigationKeyDownTimes(d, handleNavigationKeyDown(d, s, key), key, n - 1)

\* keydown: the cancel handlers of the hover sets and the navigation handlers
dispatchKeyDown(d, s, key) ==
  NavigationKeyDownTimes(d, KeyDownTimes(s, key, s.hoverSets), key, s.navHandlers)

(***************************************************************************)
(* The message handler of the content script: applyDomPath.                *)
(***************************************************************************)
\* setSelectedElement; highlightSelectedElement; triggerElementSelected
applyDomPath(d, s, element) ==
  onElementSelected(d, highlightSelectedElement([s EXCEPT !.selectedElement = element]))

(***************************************************************************)
(* Pages.                                                                  *)
(***************************************************************************)
\* html > body > [2 div.sidebar-nav, 3 div#readme > [4 p, 5 p]]
DefaultPage ==
  [parent    |-> [e \in 0..5 |->
                   CASE e = 0 -> Null [] e \in {1} -> 0 [] e \in {2, 3} -> 1 [] OTHER -> 3],
   tagName   |-> [e \in 0..5 |->
                   CASE e = 0 -> "html" [] e = 1 -> "body"
                     [] e \in {4, 5} -> "p" [] OTHER -> "div"],
   id        |-> [e \in 0..5 |-> CASE e = 3 -> "readme" [] OTHER -> ""],
   className |-> [e \in 0..5 |->
                   CASE e = 2 -> <<"sidebar-nav">>
                     [] e = 3 -> <<"markdown-body", "entry", "wide", "dark">>
                     [] OTHER -> << >>],
   role      |-> [e \in 0..5 |-> ""],
   left      |-> [e \in 0..5 |-> CASE e \in {3, 4, 5} -> 200 [] OTHER -> 0],
   top       |-> [e \in 0..5 |-> CASE e = 5 -> 300 [] OTHER -> 0],
   width     |-> [e \in 0..5 |->
                   CASE e = 2 -> 200 [] e \in {3, 4, 5} -> 600 [] OTHER -> 1000],
   height    |-> [e \in 0..5 |->
                   CASE e = 2 -> 600 [] e = 3 -> 800 [] e = 4 -> 300 [] e = 5 -> 80
                     [] OTHER -> 800],
   textLength |-> [e \in 0..5 |->
                   CASE e = 2 -> 80 [] e = 3 -> 1320 [] e = 4 -> 900 [] e = 5 -> 300
                     [] OTHER -> 1400],
   htmlLength |-> [e \in 0..5 |->
                   CASE e = 2 -> 400 [] e = 3 -> 1650 [] e = 4 -> 1000 [] e = 5 -> 300
                     [] e = 1 -> 2500 [] OTHER -> 2800],
   hidden    |-> [e \in 0..5 |-> FALSE],
   innerWidth |-> 1000,
   innerHeight |-> 800]

\* the same tree with short unclassed paragraphs only: nothing a preset or
\* the scorer picks
BarePage ==
  [DefaultPage EXCEPT
     !.tagName = [e \in 0..5 |-> CASE e = 0 -> "html" [] e = 1 -> "body" [] OTHER -> "p"],
     !.id = [e \in 0..5 |-> ""],
     !.className = [e \in 0..5 |-> << >>]]

SpecPages == {DefaultPage}

SmartPages == {DefaultPage, BarePage}

\* html > body > [2, 3 > [5], 4]: the tags of 2..5 vary, 4 may carry an id
PathPage(tags, id4) ==
  [DefaultPage EXCEPT
     !.parent = [e \in 0..5 |->
                  CASE e = 0 -> Null [] e = 1 -> 0 [] e = 5 -> 3 [] OTHER -> 1],
     !.tagName = [e \in 0..5 |->
                  CASE e = 0 -> "html" [] e = 1 -> "body" [] OTHER -> tags[e]],
     !.id = [e \in 0..5 |-> IF e = 4 THEN id4 ELSE ""],
     !.className = [e \in 0..5 |->
                  CASE e = 2 -> <<"a", "b", "c", "d">> [] e = 5 -> <<"a">> [] OTHER -> << >>]]

PathTags == {"div", "p"}

PathPages == { PathPage(tags, id4) : tags \in [2..5 -> PathTags], id4 \in {"", "x"} }

\* an unknown page with one obvious article container and a nav and a footer
\* block: html > body > [2 div.nav, 3 article > [4..8 h2], 9 div.footer >
\* [10..12 p or span]]. The article has 1200 characters and 5 headings, is
\* centred and covers half of the 1000 x 800 viewport; the text of the nav
\* and footer blocks and the number of paragraphs in the footer vary.
ScenarioPage(navText, footerText, paragraphs) ==
  [parent    |-> [e \in 0..12 |->
                   CASE e = 0 -> Null [] e = 1 -> 0 [] e \in {2, 3, 9} -> 1
                     [] e \in 4..8 -> 3 [] OTHER -> 9],
   tagName   |-> [e \in 0..12 |->
                   CASE e = 0 -> "html" [] e = 1 -> "body" [] e \in {2, 9} -> "div"
                     [] e = 3 -> "article" [] e \in 4..8 -> "h2"
                     [] OTHER -> IF e - 9 <= paragraphs THEN "p" ELSE "span"],
   id        |-> [e \in 0..12 |-> ""],
   className |-> [e \in 0..12 |->
                   CASE e = 2 -> <<"nav">> [] e = 9 -> <<"footer">> [] OTHER -> << >>],
   role      |-> [e \in 0..12 |-> ""],
   left      |-> [e \in 0..12 |-> CASE e \in 3..8 -> 100 [] OTHER -> 0],
   top       |-> [e \in 0..12 |->
                   CASE e \in 3..8 -> 150 + 100 * (IF e = 3 THEN 0 ELSE e - 4)
                     [] e \in 9..12 -> 650 [] OTHER -> 0],
   width     |-> [e \in 0..12 |->
                   CASE e \in 3..8 -> 800 [] e \in 10..12 -> 300 [] OTHER -> 1000],
   height    |-> [e \in 0..12 |->
                   CASE e \in {0, 1} -> 800 [] e = 2 -> 100 [] e = 3 -> 500
                     [] e \in 4..8 -> 40 [] e = 9 -> 150 [] OTHER -> 50],
   textLength |-> [e \in 0..12 |->
                   CASE e \in {0, 1} -> 1200 + navText + footerText
                     [] e = 2 -> navText [] e = 3 -> 1200 [] e \in 4..8 -> 20
                     [] e = 9 -> footerText [] OTHER -> footerText \div 3],
   htmlLength |-> [e \in 0..12 |->
                   CASE e \in {0, 1} -> 2000 + navText + footerText
                     [] e = 2 -> navText + 200 [] e = 3 -> 1500 [] e \in 4..8 -> 20
                     [] e = 9 -> footerText + 200 [] OTHER -> footerText \div 3],
   hidden    |-> [e \in 0..12 |-> FALSE],
   innerWidth |-> 1000,
   innerHeight |-> 800]

ScenarioPages ==
  { ScenarioPage(navText, footerText, paragraphs) :
      navText \in {60, 1000}, footerText \in {45, 400, 1000}, paragraphs \in 0..3 }

\* a page html > body > rows, the rows being the elements 2, 3, ... in
\* document order: [parent, tag, class, left, top, width, height, text, html,
\* hidden]
RankPage(rows) ==
  LET E == 0..(Len(rows) + 1)
      of(e, field, html, body) ==
        CASE e = 0 -> html [] e = 1 -> body [] OTHER -> rows[e - 1][field]
  IN [parent    |-> [e \in E |-> of(e, 1, Null, 0)],
      tagName   |-> [e \in E |-> of(e, 2, "html", "body")],
      id        |-> [e \in E |-> ""],
      className |-> [e \in E |-> of(e, 3, << >>, << >>)],
      role      |-> [e \in E |-> ""],
      left      |-> [e \in E |-> of(e, 4, 0, 0)],
      top       |-> [e \in E |-> of(e, 5, 0, 0)],
      width     |-> [e \in E |-> of(e, 6, 1000, 1000)],
      height    |-> [e \in E |-> of(e, 7, 800, 800)],
      textLength |-> [e \in E |-> of(e, 8, 1500, 1500)],
      htmlLength |-> [e \in E |-> of(e, 9, 4000, 3800)],
      hidden    |-> [e \in E |-> of(e, 10, FALSE, FALSE)],
      innerWidth |-> 1000,
      innerHeight |-> 800]

\* unknown pages for the candidate collection, the ranking and the
\* refinement: (1) a lone article or span element that is too low, too short
\* of text or hidden, or none of these; (2) an article and a main element (or two of a kind) of the
\* same geometry and text, above and below the centre, one of them with a
\* heading; (3) a block div.wrapper or div.nav-wrapper with one child;
\* (4) main > article > div.content, the inner two high enough or not
RankPages ==
  { RankPage(<< <<1, tag, << >>, 200, 150, 600, h, text, text + 200, hidden>> >>) :
      tag \in {"article", "span"}, h \in {80, 500}, text \in {40, 1200}, hidden \in BOOLEAN }
  \cup
  { RankPage(IF under = 2
               THEN << <<1, t2, << >>, 200, 0, 600, 300, 600, 1000, FALSE>>,
                       <<2, "h2", << >>, 200, 0, 600, 40, 20, 20, FALSE>>,
                       <<1, t3, << >>, 200, 500, 600, 300, 600, 1000, FALSE>> >>
               ELSE << <<1, t2, << >>, 200, 0, 600, 300, 600, 1000, FALSE>>,
                       <<1, t3, << >>, 200, 500, 600, 300, 600, 1000, FALSE>>,
                       <<3, IF under = 3 THEN "h2" ELSE "span", << >>,
                         200, 500, 600, 40, 20, 20, FALSE>> >>) :
      t2 \in {"article", "main"}, t3 \in {"article", "main"}, under \in {0, 2, 3} }
  \cup
  { RankPage(<< <<1, "div", <<cls>>, 0, 600, 1000, 200, 500, 1000, FALSE>>,
                <<2, tag, child, 0, 600, 500, 200, text, 2 * text, FALSE>> >>) :
      cls \in {"wrapper", "nav-wrapper"}, tag \in {"div", "p", "section"},
      child \in {<<"nav">>, << >>}, text \in {40, 400, 900} }
  \cup
  { RankPage(<< <<1, "main", << >>, 100, 100, 800, 600, 2000, 2600, FALSE>>,
                <<2, "article", << >>, 100, 100, 400, ha, 1500, 1900, FALSE>>,
                <<3, "div", <<"content">>, 100, 100, 200, hc, 1000, 1200, FALSE>> >>) :
      ha \in {80, 300}, hc \in {80, 200} }

GithubUrl == <<"https://", "github.com", "/owner/repo">>
ExampleUrl == <<"https://", "example.com", "/a">>

Urls == {GithubUrl, ExampleUrl}

\* caller-supplied rules for example.com
RuleEntry(priority) == Preset(<< <<"example.com">> >>, <<ClassSel("entry")>>, priority)
RuleSidebar(priority) == Preset(<< <<"example.com">> >>, <<ClassSel("sidebar-nav")>>, priority)
\* #missing resolves to nothing, p:nth-child(2) to a paragraph too short to be valid
RuleFailing(priority) ==
  Preset(<< <<"example.com">> >>,
         <<IdSel("missing"), <<Compound("p", "", << >>, 2, ">")>> >>, priority)

HighPriority == 10
LowPriority == 5

\* the last five: rules of equal priority in both orders, a rule without a
\* priority beside one of priority 0, and a rule for github.com of the
\* priority of the built-in one
UserPresetLists ==
  { << >>,
    <<RuleEntry(HighPriority), RuleSidebar(LowPriority)>>,
    <<RuleSidebar(LowPriority), RuleEntry(HighPriority)>>,
    <<RuleSidebar(LowPriority), RuleFailing(HighPriority)>>,
    <<RuleSidebar(HighPriority), RuleEntry(HighPriority)>>,
    <<RuleEntry(HighPriority), RuleSidebar(HighPriority)>>,
    <<PresetNoPriority(<< <<"example.com">> >>, <<ClassSel("sidebar-nav")>>), RuleEntry(0)>>,
    <<RuleEntry(0), PresetNoPriority(<< <<"example.com">> >>, <<ClassSel("sidebar-nav")>>)>>,
    <<Preset(<< <<"github.com">> >>, <<ClassSel("sidebar-nav")>>, DefaultPriority)>> }

\* a selector that is well formed and matches no element of any page
NoSuchPath == TagSel("video")
\* a malformed selector ("div > > p")
MalformedPath ==
  <<Compound("div", "", << >>, 0, ">"), Compound("", "", << >>, 0, ">"),
    Compound("p", "", << >>, 0, ">")>>

\* where a path sent with apply-path comes from: recorded earlier for an
\* element of the page (the empty string for a root container), or not
NoSuchSource == -3
MalformedSource == -4
PathSources(d) == Elems(d) \cup {NoSuchSource, MalformedSource}

PathFrom(d, src) ==
  CASE src = NoSuchSource -> NoSuchPath
    [] src = MalformedSource -> MalformedPath
    [] OTHER -> generateDOMPath(d, src)

(***************************************************************************)
(* Specification.                                                          *)
(***************************************************************************)
MaxTimers == 2

Bounded(s) ==
  /\ s.hoverSets <= MaxHandlers
  /\ s.navHandlers <= MaxHandlers
  /\ s.timers <= MaxTimers

ModeOf(s) ==
  CASE s.isSelecting /\ ~s.isNavigatingMode -> "Hovering"
    [] ~s.isSelecting /\ s.isNavigatingMode -> "Navigating"
    [] ~s.isSelecting /\ ~s.isNavigatingMode -> "Idle"
    [] OTHER -> "Hovering+Navigating"

Mode == ModeOf(Cur)

Op(op, arg) == [op |-> op, arg |-> arg]

NoSmart == [element |-> Null, queried |-> << >>, scorer |-> FALSE]

CountOf(msgs, action) == Cardinality({ k \in 1..Len(msgs) : msgs[k].action = action })

\* the operations of a session that is started by start-selection and driven
\* by pointer and arrow keys alone (the timer runs by itself)
PlainOps == {"mouseover", "click", "ArrowUp", "ArrowDown", "ArrowLeft", "ArrowRight",
             "Escape", "timer"}

NoSession == [plain |-> FALSE, stopped |-> 0, selected |-> 0]

\* session.plain: a session begun by start-selection from Idle is under way
\* (or has just ended) and has seen plain operations only; the counts are
\* of that session
NextSession(s, op) ==
  LET counted(base) ==
        [base EXCEPT
           !.stopped = Min(2, @ + CountOf(s.out, "selectionStopped")),
           !.selected = Min(2, @ + CountOf(s.out, "elementSelected"))]
  IN IF Mode = "Idle"
       THEN IF op.op = "startSelection" /\ ModeOf(s) # "Idle"
              THEN counted([NoSession EXCEPT !.plain = TRUE])
              ELSE NoSession
       ELSE IF session.plain /\ op.op \in PlainOps THEN counted(session)
       ELSE NoSession

\* the accepted moves (each restarts the debounce timer) of the arrow keys
\* pressed since the last operation that was not an arrow key
NextBurst(s, op) ==
  IF op.op \in ArrowKeys THEN Min(MaxBurst, burst + s.sends) ELSE 0

\* the side panel before any applyDomPath call: no retry timer pending
NoPanelCall == [retries |-> << >>, last |-> [src |-> Null, retryCount |-> 0, outcome |-> ""]]

InitSelector ==
  /\ isSelecting = FALSE
  /\ isNavigatingMode = FALSE
  /\ selectedElement = Null
  /\ markdownUpdateTimer = "null"
  /\ timers = 0
  /\ originalStyles = << >>
  /\ style = [e \in Elems(dom) |-> PageStyle]
  /\ hoverSets = 0
  /\ hoverRef = FALSE
  /\ navHandlers = 0
  /\ navRef = FALSE
  /\ cursor = ""
  /\ statusMessage = ""
  /\ out = << >>
  /\ response = ""
  /\ lastOp = Op("load", "")
  /\ queried = << >>
  /\ scorerInvoked = FALSE
  /\ burst = 0
  /\ cleanup = << >>
  /\ session = NoSession
  /\ panel = NoPanelCall

\* the content script as shipped (no caller-supplied presets), on a page
\* and an address fixed at load time; svars and lastOp onwards only record
\* the last step and the session for the properties
Init ==
  /\ dom \in SpecPages
  /\ url \in Urls
  /\ userPresets = << >>
  /\ InitSelector

\* the content script handles one message or event to completion
Handled(s, resp, op, smart) ==
  /\ Bounded(s)
  /\ Commit(s)
  /\ response' = resp
  /\ lastOp' = op
  /\ queried' = smart.queried
  /\ scorerInvoked' = smart.scorer
  /\ burst' = NextBurst(s, op)
  /\ cleanup' = s.log
  /\ session' = NextSession(s, op)
  /\ UNCHANGED <<dom, url, userPresets>>

\* the same, for a message or event the side panel's applyDomPath has no
\* part in
Step(s, resp, op, smart) ==
  /\ Handled(s, resp, op, smart)
  /\ UNCHANGED panel

CmdStartSelection ==
  Step(startSelection(Cur), "success",
       Op("startSelection",
          IF Mode = "Idle" THEN "first"
          ELSE IF lastOp.op = "startSelection" /\ lastOp.arg \in {"first", "again"}
            THEN "again" ELSE ""),
       NoSmart)

CmdStopSelection == Step(stopSelection(Cur), "success", Op("stopSelection", ""), NoSmart)

\* findMainContentElement on the inputs of the specifications, tabulated
\* once: the page, the address and the presets never change after load
MainContentOf ==
  [d \in SmartPages, u \in Urls, user \in UserPresetLists |->
     findMainContentElement(d, u, mergedPresets(user))]

\* the same on the scenario pages, with the shipped presets
ScenarioContentOf ==
  [d \in ScenarioPages \cup RankPages |->
     findMainContentElement(d, ExampleUrl, mergedPresets(<< >>))]

FoundOn(d, u, user) ==
  IF d \in SmartPages THEN MainContentOf[d, u, user] ELSE ScenarioContentOf[d]

CmdSmartSelect ==
  LET found == FoundOn(dom, url, userPresets)
  IN Step(smartSelect(Cur, found.element), "success", Op("smartSelect", ""), found)

\* mutant: the selection is reset before the path is resolved
CmdApplyDomPath_ResetFirst ==
  \E src \in PathSources(dom) :
    LET element == querySelector(dom, PathFrom(dom, src))
        op == Op("applyDomPath", src)
        reset == removeHighlight([Cur EXCEPT !.selectedElement = Null])
    IN CASE element = SyntaxError -> Step(reset, "invalid-path", op, NoSmart)
         [] element = NullResult -> Step(reset, "not-found", op, NoSmart)
         [] OTHER -> Step(applyDomPath(dom, Cur, element), "success", op, NoSmart)

\* the content script's handler of an applyDomPath message
onApplyDomPath(src) ==
  LET element == querySelector(dom, PathFrom(dom, src))
      op == Op("applyDomPath", src)
  IN CASE element = SyntaxError -> Handled(Cur, "invalid-path", op, NoSmart)
       [] element = NullResult -> Handled(Cur, "not-found", op, NoSmart)
       [] OTHER -> Handled(applyDomPath(dom, Cur, element), "success", op, NoSmart)

CmdApplyDomPath ==
  \E src \in PathSources(dom) :
    /\ onApplyDomPath(src)
    /\ UNCHANGED panel

MouseOver ==
  \E target \in InDocument(dom) :
    /\ hoverSets > 0
    /\ Step(MouseOverTimes(Cur, target, hoverSets), "", Op("mouseover", ""), NoSmart)

Click ==
  \E target \in InDocument(dom) :
    /\ hoverSets > 0
    /\ Step(ClickTimes(Cur, target, hoverSets), "", Op("click", ""), NoSmart)

KeyDown ==
  \E key \in Keys :
    /\ hoverSets + navHandlers > 0
    /\ Step(dispatchKeyDown(dom, Cur, key), "", Op(key, IF key \in {"Escape", "Enter"} THEN Mode ELSE ""), NoSmart)

\* a pending debounce timer expires: the one the field holds, or one that
\* was superseded without being cleared
TimerFire ==
  /\ timers > 0
  /\ \E own \in BOOLEAN :
       /\ own => markdownUpdateTimer = "pending"
       /\ ~own => timers > (IF markdownUpdateTimer = "pending" THEN 1 ELSE 0)
       /\ Step(onElementDataUpdate(dom,
                 [Cur EXCEPT !.timers = @ - 1,
                             !.markdownUpdateTimer = IF own THEN "fired" ELSE @]),
               "", Op("timer", burst), NoSmart)

Next ==
  \/ CmdStartSelection
  \/ CmdStopSelection
  \/ CmdSmartSelect
  \/ CmdApplyDomPath
  \/ MouseOver
  \/ Click
  \/ KeyDown
  \/ TimerFire

\* the state of the page and its content script
contentVars ==
  <<dom, isSelecting, isNavigatingMode, selectedElement, markdownUpdateTimer,
    timers, originalStyles, style, hoverSets, hoverRef, navHandlers,
    navRef, cursor, statusMessage, out, response, url, userPresets,
    lastOp, queried, scorerInvoked, burst, cleanup, session>>

vars == <<contentVars, panel>>

Spec == Init /\ [][Next]_vars

(***************************************************************************)
(* The selector constructed with caller-supplied presets, on the pages and *)
(* addresses of SmartPages and Urls: smart-select, the keys and the timer. *)
(***************************************************************************)
InitSmart ==
  /\ dom \in SmartPages
  /\ url \in Urls
  /\ userPresets \in UserPresetLists
  /\ InitSelector

NextSmart ==
  \/ CmdSmartSelect
  \/ CmdStopSelection
  \/ KeyDown
  \/ TimerFire

SpecSmart == InitSmart /\ [][NextSmart]_vars

(***************************************************************************)
(* The content script as shipped on the unknown pages of ScenarioPages.    *)
(***************************************************************************)
InitScenario ==
  /\ dom \in ScenarioPages
  /\ url = ExampleUrl
  /\ userPresets = << >>
  /\ InitSelector

SpecScenario == InitScenario /\ [][NextSmart]_vars

(***************************************************************************)
(* The content script as shipped on the unknown pages of RankPages.        *)
(***************************************************************************)
InitRank ==
  /\ dom \in RankPages
  /\ url = ExampleUrl
  /\ userPresets = << >>
  /\ InitSelector

SpecRank == InitRank /\ [][NextSmart]_vars

(***************************************************************************)
(* Path generation and resolution on every tag arrangement of PathPages.   *)
(***************************************************************************)
InitPath ==
  /\ dom \in PathPages
  /\ url = ExampleUrl
  /\ userPresets = << >>
  /\ InitSelector

NextPath == CmdApplyDomPath

SpecPath == InitPath /\ [][NextPath]_vars

(***************************************************************************)
(* The page's own script removes the selected element, or an ancestor of   *)
(* it, from the document while the session is Navigating.                  *)
(***************************************************************************)
PageRemoves ==
  /\ isNavigatingMode
  /\ selectedElement # Null
  /\ \E e \in (({selectedElement} \cup Ancestors(dom, selectedElement))
               \cap InDocument(dom)) \ {Html, Body} :
       /\ dom' = [dom EXCEPT !.parent[e] = Null]
       /\ lastOp' = Op("remove", "")
       /\ out' = << >>
       /\ response' = ""
       /\ UNCHANGED <<isSelecting, isNavigatingMode, selectedElement, markdownUpdateTimer,
                      timers, originalStyles, style, hoverSets, hoverRef, navHandlers,
                      navRef, cursor, statusMessage, url, userPresets, queried,
                      scorerInvoked, burst, cleanup, session, panel>>

NextVanish ==
  \/ CmdStartSelection
  \/ CmdStopSelection
  \/ Click
  \/ KeyDown
  \/ TimerFire
  \/ PageRemoves

SpecVanish == Init /\ [][NextVanish]_vars

(***************************************************************************)
(* The side panel's applyDomPath (SidePanel.tsx) in front of the content   *)
(* script: the panel sends the applyDomPath message to the active tab and  *)
(* re-sends it from a timer when the delivery fails.                       *)
(***************************************************************************)
MaxPending == 1

MaxRetry == 2

\* what chrome.tabs.query gives as the active tab: the tab of this page, a
\* tab where no content script listens, or a tab without an id
Tabs == {"page", "no-receiver", "no-id"}

PanelDone(retries, src, retryCount, outcome) ==
  panel' = [retries |-> retries,
            last |-> [src |-> src, retryCount |-> retryCount, outcome |-> outcome]]

\* one run of applyDomPath(path, retryCount), the timers in retries being
\* the ones pending beside it
panelApplyDomPath(retries, src, retryCount, tab) ==
  IF PathFrom(dom, src) = << >>
    THEN PanelDone(retries, src, retryCount, "no-path") /\ UNCHANGED contentVars
  ELSE CASE tab = "no-id" ->
              PanelDone(retries, src, retryCount, "no-tab") /\ UNCHANGED contentVars
         [] tab = "page" ->
              /\ onApplyDomPath(src)
              /\ PanelDone(retries, src, retryCount,
                           IF response' = "success" THEN "applied" ELSE "failed")
         [] tab = "no-receiver" ->
              /\ UNCHANGED contentVars
              /\ IF retryCount < MaxRetry
                   THEN /\ Len(retries) < MaxPending
                        /\ PanelDone(Append(retries, [src |-> src, retryCount |-> retryCount + 1]),
                                     src, retryCount, "retry-scheduled")
                   ELSE PanelDone(retries, src, retryCount, "gave-up")

\* the user applies a path: the edit dialog's save, the apply button, or a
\* saved path of the site when the panel opens or the tab changes
PanelApply ==
  \E src \in PathSources(dom), tab \in Tabs :
    panelApplyDomPath(panel.retries, src, 0, tab)

\* a retry timer of the panel expires, 2000 ms after the failed delivery
PanelRetry ==
  /\ panel.retries # << >>
  /\ \E tab \in Tabs :
       panelApplyDomPath(Tail(panel.retries), Head(panel.retries).src,
                         Head(panel.retries).retryCount, tab)

NextPanel ==
  \/ PanelApply
  \/ PanelRetry
  \/ CmdStopSelection

SpecPanel == Init /\ [][NextPanel]_vars

(***************************************************************************)
(* Properties.                                                             *)
(***************************************************************************)
core == <<isSelecting, isNavigatingMode, selectedElement, markdownUpdateTimer,
          timers, originalStyles, style, hoverSets, hoverRef, navHandlers,
          navRef, cursor, statusMessage>>

AllStylesOriginal == \A e \in Elems(dom) : style[e] = PageStyle

\* C1: a start-selection that immediately follows a start-selection issued
\* from Idle changes no field, no listener, no style: the mode stays Hovering
\* with exactly one hover/click/cancel listener set attached.
C1_StartTwiceIsOnce ==
  [][lastOp' = Op("startSelection", "again")
       => /\ UNCHANGED core
          /\ ModeOf(Cur)' = "Hovering"
          /\ hoverSets' = 1]_vars

C1_Witness ==
  /\ lastOp = Op("startSelection", "again")
  /\ Mode = "Hovering"
  /\ hoverSets = 1

\* C2 (as claimed): a start-selection received in any active mode attaches
\* no listener and leaves the mode, the selected element and the highlight
\* ledger as they were.
C2_StartWhileActiveIsNoOp ==
  [][(Mode # "Idle" /\ lastOp'.op = "startSelection")
       => UNCHANGED <<hoverSets, navHandlers, isSelecting, isNavigatingMode,
                      selectedElement, originalStyles>>]_vars

\* C3: after every terminal transition (Escape in an active mode, Enter while
\* navigating, stop-selection in an active mode) the highlight ledger is
\* empty and every element has its original outline and background.
TerminalStep ==
  \/ Mode # "Idle" /\ lastOp'.op \in {"Escape", "stopSelection"}
  \/ isNavigatingMode /\ lastOp'.op = "Enter"

C3_LedgerDrains ==
  [][TerminalStep => (originalStyles' = << >> /\ AllStylesOriginal')]_vars

C3_Witness ==
  /\ lastOp = Op("Enter", "Navigating")
  /\ CountOf(out, "elementSelected") = 1
  /\ Mode = "Idle"
  /\ originalStyles = << >>

\* C4 (as claimed): whenever the mode is Idle the highlight ledger is empty,
\* and right after a stop-selection command the ledger is empty.
C4_IdleLedgerEmpty ==
  (Mode = "Idle" \/ lastOp.op = "stopSelection") => originalStyles = << >>

\* C5: while navigating, Up on a direct child of body and Down on an element
\* without child elements change neither the selected element, nor the
\* highlight (ledger and styles), nor the pending debounce timer.
RootExcludedMove ==
  /\ isNavigatingMode
  /\ \/ lastOp'.op = "ArrowUp" /\ parentElement(dom, selectedElement) = Body
     \/ lastOp'.op = "ArrowDown" /\ firstElementChild(dom, selectedElement) = Null

C5_RootExclusion ==
  [][RootExcludedMove
       => UNCHANGED <<selectedElement, originalStyles, style,
                      markdownUpdateTimer, timers>>]_vars

C5_Witness ==
  /\ lastOp.op = "ArrowUp"
  /\ isNavigatingMode
  /\ parentElement(dom, selectedElement) = Body
  /\ selectedElement \in DOMAIN originalStyles

\* C6 (as claimed): applying the path generated for an element below the
\* page root succeeds and selects exactly that element.
C6_PathRoundTrip ==
  (lastOp.op = "applyDomPath" /\ lastOp.arg \in Elems(dom) \ {Html, Body})
    => (response = "success" /\ selectedElement = lastOp.arg)

\* C7: when the debounce timer fires after a run of accepted arrow-key moves
\* that each came before the timer expired, exactly one element-data-update
\* is emitted, it carries the element the last move selected, and no timer
\* of the run is left to fire.
C7_DebounceCoalesces ==
  [][(burst >= 1 /\ lastOp'.op = "timer")
       => /\ out' = <<ElementMessage(dom, Cur, "elementDataUpdate")>>
          /\ timers' = 0]_vars

C7_Witness ==
  /\ lastOp = Op("timer", 5)
  /\ CountOf(out, "elementDataUpdate") = 1
  /\ timers = 0

\* the rules of a priority whose patterns match the address
Matching(priority) ==
  { r \in Range(mergedPresets(userPresets)) :
      /\ Priority(r) = priority
      /\ \E k \in 1..Len(r.patterns) : includes(url, r.patterns[k]) }

QueriedAt(priority) == { k \in 1..Len(queried) : queried[k].priority = priority }

TwoRulesMatch == Matching(HighPriority) # {} /\ Matching(LowPriority) # {}

\* a selector of a matching rule resolves to an element that is valid
Accepts(r) ==
  \E k \in 1..Len(r.selectors) :
    /\ querySelector(dom, r.selectors[k]) # NullResult
    /\ isValidContentElement(dom, querySelector(dom, r.selectors[k]))

\* C8 (as claimed): with a priority-10 and a priority-5 rule both matching,
\* no selector of the priority-5 rule is ever queried.
C8_LowPriorityNeverTried ==
  (lastOp.op = "smartSelect" /\ TwoRulesMatch) => QueriedAt(LowPriority) = {}

\* C8 (amended): the selectors of the priority-10 rule are queried first; the
\* selectors of the priority-5 rule are queried only after every selector of
\* the priority-10 rule was queried and none gave a valid element.
C8_HighPriorityFirst ==
  (lastOp.op = "smartSelect" /\ TwoRulesMatch)
    => /\ QueriedAt(HighPriority) # {}
       /\ \A i \in QueriedAt(LowPriority) : \A j \in QueriedAt(HighPriority) : j < i
       /\ QueriedAt(LowPriority) # {}
            => \A r \in Matching(HighPriority) :
                 /\ ~Accepts(r)
                 /\ \A k \in 1..Len(r.selectors) :
                      \E j \in QueriedAt(HighPriority) : queried[j].selector = r.selectors[k]
       /\ (\E r \in Matching(HighPriority) : Accepts(r)) => QueriedAt(LowPriority) = {}

C8_Witness ==
  /\ lastOp.op = "smartSelect"
  /\ TwoRulesMatch
  /\ \E r \in Matching(HighPriority) : Accepts(r)
  /\ \E r \in Matching(LowPriority) : Accepts(r)
  /\ QueriedAt(HighPriority) # {}
  /\ QueriedAt(LowPriority) = {}

\* the elements the selectors of the matching rules resolve to and that pass
\* the validity predicate
PresetHits ==
  { e \in Elems(dom) :
      \E r \in Range(mergedPresets(userPresets)) :
        /\ \E k \in 1..Len(r.patterns) : includes(url, r.patterns[k])
        /\ \E k \in 1..Len(r.selectors) :
             /\ querySelector(dom, r.selectors[k]) = e
             /\ isValidContentElement(dom, e) }

\* C9: when a selector of a matching preset rule resolves to a valid element,
\* smart-select selects such an element, enters navigation, and the scorer
\* does not run.
C9_PresetShortCircuit ==
  (lastOp.op = "smartSelect" /\ PresetHits # {})
    => /\ ~scorerInvoked
       /\ selectedElement \in PresetHits
       /\ isNavigatingMode

C9_Witness ==
  /\ lastOp.op = "smartSelect"
  /\ PresetHits # {}
  /\ ~scorerInvoked
  /\ selectedElement \in PresetHits

\* C10: a session begun by start-selection and driven by hover, click and
\* arrow keys that is ended by Escape has emitted exactly one
\* selection-stopped (the Escape's only message) and no element-selected, and
\* ends in Idle with an empty ledger.
C10_Cancel ==
  (lastOp.op = "Escape" /\ session.plain)
    => /\ session.stopped = 1
       /\ session.selected = 0
       /\ out = <<PlainMessage("selectionStopped")>>
       /\ Mode = "Idle"
       /\ originalStyles = << >>

C10_Witness ==
  /\ lastOp = Op("Escape", "Navigating")
  /\ session.plain
  /\ session.stopped = 1
  /\ selectedElement # Null

C12_IdleNoListeners ==
  Mode = "Idle" => (hoverSets = 0 /\ navHandlers = 0)

\* C13 (as claimed): isSelecting and isNavigatingMode are never both true,
\* and a hover listener set and a navigation handler are never attached at
\* the same time.
C13_ModeExclusive ==
  /\ ~(isSelecting /\ isNavigatingMode)
  /\ ~(hoverSets > 0 /\ navHandlers > 0)

\* C14: a stop-selection received while the mode is Idle changes no field,
\* no listener, no style, no ledger entry and no timer, and sends nothing.
C14_StopInIdleIsNoOp ==
  [][(Mode = "Idle" /\ lastOp'.op = "stopSelection")
       => (UNCHANGED core /\ out' = << >>)]_vars

\* the stop found the selector Idle with an element still highlighted
C14_Witness ==
  /\ lastOp.op = "stopSelection"
  /\ Mode = "Idle"
  /\ originalStyles # << >>
  /\ out = << >>

\* C15: an apply-path whose path matches no element answers "not-found", one
\* whose path is no valid selector answers "invalid-path" (the exception is
\* caught); in both cases nothing is sent and no field, listener, style,
\* ledger entry or timer changes.
C15_ApplyPathFailure ==
  [][lastOp'.op = "applyDomPath"
       => LET element == querySelector(dom, PathFrom(dom, lastOp'.arg))
          IN /\ element = NullResult
                  => (response' = "not-found" /\ out' = << >> /\ UNCHANGED core)
             /\ element = SyntaxError
                  => (response' = "invalid-path" /\ out' = << >> /\ UNCHANGED core)
             /\ response' \in {"success", "not-found", "invalid-path"}
             /\ lastOp'.arg = NoSuchSource => response' = "not-found"
             /\ lastOp'.arg = MalformedSource => response' = "invalid-path"]_vars

\* a malformed path arrives while an element is selected and highlighted
C15_Witness ==
  /\ lastOp = Op("applyDomPath", MalformedSource)
  /\ response = "invalid-path"
  /\ out = << >>
  /\ isNavigatingMode
  /\ selectedElement \in DOMAIN originalStyles

\* C16 (as claimed): after a successful apply-path the resolved element is
\* selected, exactly one element-selected and one navigation-exited were
\* sent, and the state is that after click-then-Enter: mode Idle, ledger
\* empty, no listener attached, no debounce timer pending.
C16_ApplyPathLikeClickConfirm ==
  (lastOp.op = "applyDomPath" /\ response = "success")
    => /\ selectedElement = querySelector(dom, PathFrom(dom, lastOp.arg))
       /\ CountOf(out, "elementSelected") = 1
       /\ CountOf(out, "navigationExited") = 1
       /\ Mode = "Idle"
       /\ originalStyles = << >>
       /\ hoverSets = 0 /\ navHandlers = 0
       /\ markdownUpdateTimer # "pending"

\* the element the preset matcher or, failing that, the scorer yields
SmartResult == FoundOn(dom, url, userPresets).element

\* C17: a smart-select that yields an element ends in Navigating with that
\* element selected, it alone highlighted and in the ledger, and exactly one
\* debounce timer pending, the update not yet sent; a smart-select that
\* yields nothing changes no field, listener, style or timer and sends
\* nothing, so an Idle selector stays Idle.
C17_SmartSelectOutcome ==
  [][lastOp'.op = "smartSelect"
       => IF SmartResult # Null
            THEN /\ ModeOf(Cur)' = "Navigating"
                 /\ selectedElement' = SmartResult
                 /\ DOMAIN originalStyles' = {SmartResult}
                 /\ style' = [e \in Elems(dom) |->
                                IF e = SmartResult THEN HighlightStyle ELSE PageStyle]
                 /\ markdownUpdateTimer' = "pending" /\ timers' = 1
                 /\ navRef' /\ navHandlers' = navHandlers + 1
                 /\ out' = << >>
            ELSE /\ UNCHANGED core
                 /\ out' = << >>
                 /\ Mode = "Idle" => ModeOf(Cur)' = "Idle"]_vars

\* the scorer's pick was taken into navigation
C17_Witness ==
  /\ lastOp.op = "smartSelect"
  /\ scorerInvoked
  /\ SmartResult # Null
  /\ Mode = "Navigating"
  /\ selectedElement = SmartResult
  /\ DOMAIN originalStyles = {SmartResult}
  /\ markdownUpdateTimer = "pending"

\* a smart-select found nothing and left the Idle selector untouched
C17_MissWitness ==
  /\ lastOp.op = "smartSelect"
  /\ SmartResult = Null
  /\ Mode = "Idle"
  /\ navHandlers = 0
  /\ originalStyles = << >>

Positions(log, calls) == { k \in 1..Len(log) : log[k] \in calls }

Detaches == {"detachHoverListeners", "detachNavigationListener"}

\* C18 (as claimed): every stop of a session (stop-selection or Escape in an
\* active mode, Enter while navigating) cancels the debounce timer, detaches
\* the listeners and restores the ledger, in that order: the timer first, the
\* restore last.
C18_CleanupOrder ==
  [][TerminalStep
       => /\ Positions(cleanup', {"cancelTimer"}) # {}
          /\ Positions(cleanup', Detaches) # {}
          /\ Positions(cleanup', {"removeHighlight"}) # {}
          /\ \A t \in Positions(cleanup', {"cancelTimer"}) :
               \A l \in Positions(cleanup', Detaches) : t < l
          /\ \A l \in Positions(cleanup', Detaches) :
               \A h \in Positions(cleanup', {"removeHighlight"}) : l < h]_vars

\* the article element and the nav/footer blocks of a scenario page
Article == CHOOSE e \in Elems(dom) : dom.tagName[e] = "article"

NavFooter == { e \in Elems(dom) : classNameIncludes(dom, e, "nav") \/ classNameIncludes(dom, e, "footer") }

\* the nav/footer blocks the scorer collects as candidates
NavFooterCandidates == NavFooter \cap Range(getContentCandidates(dom))

PanelSent == {"applied", "failed", "retry-scheduled", "gave-up"}

\* C20 (as claimed): no apply-path request is re-sent without a new user
\* action: the message is sent only by the run the user action started
\* (retryCount = 0), never by a run started from a timer.
C20_NoAutomaticRetry ==
  panel.last.outcome \in PanelSent => panel.last.retryCount = 0

\* a failure answered by the content script (element not found, invalid
\* path) schedules no re-send
C20_AnsweredFailureNotRetried ==
  [][panel'.last.outcome = "failed" /\ panel' # panel
       => /\ response' \in {"not-found", "invalid-path"}
          /\ Len(panel'.retries) <= Len(panel.retries)]_vars

\* the panel gave up after the second re-send was not delivered either
PanelGaveUp == panel.last.outcome = "gave-up" /\ panel.last.retryCount = MaxRetry

\* the selected element was removed from the document (itself or with an
\* ancestor)
AnchorVanished == selectedElement # Null /\ selectedElement \notin InDocument(dom)

\* C21: while Navigating with a vanished anchor, an arrow key is a silent
\* no-op: selectedElement, the highlight and the timer stay as they were,
\* nothing is emitted, and the session stays Navigating.
C21_VanishedAnchorNoOp ==
  [][isNavigatingMode /\ ~isSelecting /\ AnchorVanished /\ lastOp'.op \in ArrowKeys
       => /\ selectedElement' = selectedElement
          /\ originalStyles' = originalStyles
          /\ timers' = timers
          /\ out' = << >>
          /\ isNavigatingMode']_vars

\* C21 (part that holds): with a vanished anchor the selection never comes
\* back into the document, and the session can still be confirmed or
\* cancelled
C21_StaysDetached ==
  [][AnchorVanished /\ lastOp'.op \in ArrowKeys => selectedElement' \notin InDocument(dom')]_vars

\* the elements whose style is the highlight style
Highlighted == { e \in DOMAIN style : style[e] = HighlightStyle }

\* C22: while Navigating, an arrow key moves selectedElement to its parent,
\* first child, previous or next sibling; an accepted move makes the new
\* element the only highlighted one and leaves the debounce timer pending;
\* any other key but Enter and Escape leaves selectedElement unchanged.
C22_KeyboardNavigation ==
  [][(isNavigatingMode /\ ~isSelecting /\ selectedElement # Null
        /\ lastOp'.op \in Keys \ {"Escape", "Enter"})
       => LET newElement == NavigationTarget(dom, selectedElement, lastOp'.op)
          IN IF lastOp'.op \in ArrowKeys /\ newElement \notin {Null, Body, Html}
               THEN /\ selectedElement' = newElement
                    /\ DOMAIN originalStyles' = {newElement}
                    /\ Highlighted' = {newElement}
                    /\ markdownUpdateTimer' = "pending"
                    /\ timers' > 0
               ELSE selectedElement' = selectedElement]_vars

\* C23: the root containers are never highlighted: the ledger holds neither
\* body nor the document element and their style is the page's own.
C23_RootsNeverHighlighted ==
  /\ Body \notin DOMAIN originalStyles
  /\ Html \notin DOMAIN originalStyles
  /\ style[Body] = PageStyle
  /\ style[Html] = PageStyle

\* a click made body the selected element of a Navigating session and
\* nothing is highlighted
C23_Witness ==
  /\ lastOp.op = "click"
  /\ isNavigatingMode
  /\ selectedElement = Body
  /\ originalStyles = << >>
  /\ Highlighted = {}

\* what the ledger of a Navigating session is to hold
SelectedOnly ==
  IF selectedElement \in {Null, Body, Html} THEN {} ELSE {selectedElement}

\* C24: in every state of a Navigating session the highlight ledger holds
\* exactly the selected element (nothing when it is a root container), and
\* a pointer movement does not change the highlight.
C24_SteadyHighlight ==
  isNavigatingMode => DOMAIN originalStyles = SelectedOnly /\ Highlighted = SelectedOnly

\* the same where the session is Navigating and not also Hovering
C24_SteadyWhenNavigatingOnly ==
  isNavigatingMode /\ ~isSelecting
    => DOMAIN originalStyles = SelectedOnly /\ Highlighted = SelectedOnly

\* C25: at most one debounce timer is pending, it is the one the field
\* holds, and the timer that fires is that one: a superseded timer never
\* fires.
C25_LastWriteWins ==
  /\ [](timers <= 1 /\ (timers = 1 <=> markdownUpdateTimer = "pending"))
  /\ [][lastOp'.op = "timer"
          => markdownUpdateTimer = "pending" /\ markdownUpdateTimer' # "pending"
             /\ timers' = 0]_vars

\* a move scheduled the notification while a timer was pending, and one
\* timer is pending after it
C25_Witness ==
  /\ lastOp.op \in ArrowKeys
  /\ burst >= 2
  /\ timers = 1
  /\ markdownUpdateTimer = "pending"

\* the last step ended the session or emitted element-selected
JustEnded ==
  \/ CountOf(out, "elementSelected") > 0
  \/ CountOf(out, "selectionStopped") > 0
  \/ lastOp.op = "stopSelection"

\* C26: after the session ended or element-selected was emitted, no timer
\* is pending, and a timer firing next (no navigation since) emits no
\* element-data-update.
C26_NoLateUpdate ==
  /\ [](JustEnded => timers = 0)
  /\ [][JustEnded /\ lastOp'.op = "timer" => CountOf(out', "elementDataUpdate") = 0]_vars

\* the selector slots [rule, selector] of the rules that match the address,
\* rules numbered as the constructor merged them
Merged == mergedPresets(userPresets)

Slots ==
  { t \in (1..Len(Merged)) \X (1..3) :
      /\ t[2] <= Len(Merged[t[1]].selectors)
      /\ \E k \in 1..Len(Merged[t[1]].patterns) : includes(url, Merged[t[1]].patterns[k]) }

\* the order of the scan: higher priority first, then input order of the
\* rules, then listed order of the selectors
ScannedBefore(t, u) ==
  \/ Priority(Merged[t[1]]) > Priority(Merged[u[1]])
  \/ Priority(Merged[t[1]]) = Priority(Merged[u[1]]) /\ t[1] < u[1]
  \/ t[1] = u[1] /\ t[2] < u[2]

SlotRank(t) == 1 + Cardinality({ u \in Slots : ScannedBefore(u, t) })

SlotElement(t) == querySelector(dom, Merged[t[1]].selectors[t[2]])

SlotHits ==
  { t \in Slots : SlotElement(t) # NullResult /\ isValidContentElement(dom, SlotElement(t)) }

FirstHit == CHOOSE t \in SlotHits : \A u \in SlotHits : u = t \/ ScannedBefore(t, u)

C27_DefaultsFirst ==
  /\ lastOp.op = "smartSelect"
  /\ \E t, u \in Slots :
       /\ t[1] <= Len(defaultPresets) /\ u[1] > Len(defaultPresets)
       /\ Priority(Merged[t[1]]) = Priority(Merged[u[1]])
       /\ SlotRank(u) <= Len(queried)
       /\ SlotRank(t) < SlotRank(u)

\* C28: every element smart-select pre-selects, from a preset rule, the
\* ranking or the refinement, passes the validity predicate.
C28_ValidityGate ==
  (lastOp.op = "smartSelect" /\ SmartResult # Null)
    => selectedElement = SmartResult /\ isValidContentElement(dom, selectedElement)

\* the candidates the scorer collected on this page, and the one it ranks
\* first
Candidates == getContentCandidates(dom)

TopScore == SetMax({ calculateContentScore(dom, Candidates[k]) : k \in 1..Len(Candidates) })

\* the element refinement gives for the first-ranked candidate, or that
\* candidate itself
RefinedFrom(e) ==
  IF refineCandidateSelection(dom, e) # Null THEN refineCandidateSelection(dom, e) ELSE e

\* C29: with candidates, the element handed to refinement has the maximum
\* score and is, among the candidates of that score, the one collected
\* first; without candidates smart-select gives no result.
C29_Ranking ==
  (lastOp.op = "smartSelect" /\ scorerInvoked)
    => IF Candidates = << >>
         THEN SmartResult = Null
         ELSE \E k \in 1..Len(Candidates) :
                /\ calculateContentScore(dom, Candidates[k]) = TopScore
                /\ \A j \in 1..(k - 1) : calculateContentScore(dom, Candidates[j]) < TopScore
                /\ SmartResult = RefinedFrom(Candidates[k])
                /\ selectedElement = SmartResult

\* two candidates share the maximum score and the one collected first (by
\* the selector main, although later in the document) was selected
C29_Witness ==
  /\ lastOp.op = "smartSelect"
  /\ scorerInvoked
  /\ \E j, k \in 1..Len(Candidates) :
       /\ j < k
       /\ Candidates[j] > Candidates[k]
       /\ calculateContentScore(dom, Candidates[j]) = TopScore
       /\ calculateContentScore(dom, Candidates[k]) = TopScore
       /\ selectedElement = Candidates[j]

\* the scorer ran on a page without any candidate and smart-select selected
\* nothing
C29_EmptyWitness ==
  /\ lastOp.op = "smartSelect"
  /\ scorerInvoked
  /\ Candidates = << >>
  /\ selectedElement = Null

\* the first-ranked candidate; none of the more specific selectors of the
\* refinement has a valid hit below it
Best == BestOf(dom, Candidates)

NoSpecificHit(e) ==
  \A k \in 1..Len(contentSelectors) :
    \/ querySelectorIn(dom, e, contentSelectors[k]) = Null
    \/ ~isValidContentElement(dom, querySelectorIn(dom, e, contentSelectors[k]))

\* smart-select selected a direct child of the first-ranked candidate by
\* the child-scoring fallback of the refinement
DescendedToChild ==
  /\ lastOp.op = "smartSelect"
  /\ scorerInvoked
  /\ Candidates # << >>
  /\ NoSpecificHit(Best)
  /\ selectedElement # Null
  /\ parentElement(dom, selectedElement) = Best

\* C30: the child the fallback descends into is valid, exceeds the parent's
\* score by more than 20%, and so has a score strictly greater than the
\* parent's, whatever the sign of the parent's score.
C30_Hysteresis ==
  DescendedToChild
    => /\ isValidContentElement(dom, selectedElement)
       /\ 10 * calculateContentScore(dom, selectedElement) > 12 * calculateContentScore(dom, Best)
       /\ calculateContentScore(dom, selectedElement) > calculateContentScore(dom, Best)

\* the fallback descended from a parent of positive score
C30_PositiveParent ==
  DescendedToChild /\ calculateContentScore(dom, Best) > 0

\* C31: refinement never leaves the subtree of the element it is given: its
\* result, for every element of the page, is none or a strict descendant
\* (so the recursion ends on a finite tree), and the element smart-select
\* takes from the ranking is the first-ranked candidate or a descendant of it.
C31_RefinementInsideWinner ==
  /\ \A e \in Elems(dom) :
       \/ refineCandidateSelection(dom, e) = Null
       \/ e \in Ancestors(dom, refineCandidateSelection(dom, e))
  /\ (lastOp.op = "smartSelect" /\ scorerInvoked /\ Candidates # << >>)
       => \/ selectedElement = Best
          \/ Best \in Ancestors(dom, selectedElement)

\* refinement went two levels down: the selected element is a grandchild of
\* the first-ranked candidate, reached through an intermediate valid hit
C31_Witness ==
  /\ lastOp.op = "smartSelect"
  /\ scorerInvoked
  /\ Candidates # << >>
  /\ parentElement(dom, selectedElement) # Best
  /\ parentElement(dom, parentElement(dom, selectedElement)) = Best
  /\ refineCandidateSelection(dom, Best) = selectedElement
  /\ refineCandidateSelection(dom, parentElement(dom, selectedElement)) = selectedElement

\* the class names and the identifier of e that contain a chrome keyword
ChromeNames(d, e) ==
  { d.className[e][k] : k \in { j \in 1..Len(d.className[e]) :
                                  KeywordsIn(d.className[e][j]) \cap unwantedKeywords # {} } }

ChromeLabelled(d, e) ==
  ChromeNames(d, e) # {} \/ KeywordsIn(d.id[e]) \cap unwantedKeywords # {}

\* the page with those names taken off e (none of them holds a content
\* keyword on the pages checked, so no other term of the score changes)
WithoutChromeNames(d, e) ==
  [d EXCEPT !.className[e] = SelectSeq(@, LAMBDA n : n \notin ChromeNames(d, e)),
            !.id[e] = IF KeywordsIn(@) \cap unwantedKeywords # {} THEN "" ELSE @]

\* C32: an element labelled with a chrome keyword scores exactly 100 less
\* than the same element without the label; it is ranked with the others,
\* and when it is the first candidate of maximum score smart-select selects
\* it (or what refinement finds below it).
C32_PenaltyAdditive ==
  /\ \A e \in Elems(dom) :
       (ChromeLabelled(dom, e)
          /\ \A n \in ChromeNames(dom, e) \cup {dom.id[e]} : KeywordsIn(n) \cap goodNames = {})
         => calculateContentScore(dom, e)
              = calculateContentScore(WithoutChromeNames(dom, e), e) - 1000 * 100
  /\ (lastOp.op = "smartSelect" /\ scorerInvoked /\ Candidates # << >>)
       => \E k \in 1..Len(Candidates) :
            /\ calculateContentScore(dom, Candidates[k]) = TopScore
            /\ \A j \in 1..(k - 1) : calculateContentScore(dom, Candidates[j]) < TopScore
            /\ ChromeLabelled(dom, Candidates[k])
                 => /\ SmartResult = RefinedFrom(Candidates[k])
                    /\ selectedElement = SmartResult

\* a labelled element, 100 below its unlabelled score and below zero, was
\* the candidate of maximum score and smart-select selected it
C32_Witness ==
  /\ lastOp.op = "smartSelect"
  /\ scorerInvoked
  /\ selectedElement # Null
  /\ ChromeLabelled(dom, selectedElement)
  /\ selectedElement \in Range(Candidates)
  /\ calculateContentScore(dom, selectedElement) = TopScore
  /\ TopScore < 0
  /\ calculateContentScore(WithoutChromeNames(dom, selectedElement), selectedElement)
       = TopScore + 1000 * 100

\* levels below body of an element, and its ancestor-or-self at a level
LevelOf(d, e) == Cardinality(Ancestors(d, e)) - 1

AtLevel(d, e, k) == CHOOSE a \in Ancestors(d, e) \cup {e} : LevelOf(d, a) = k

\* the segment has the form the path format gives for element a: tag,
\* identifier, at most the first three class names, and a positional suffix
\* exactly when a has another sibling of its tag, equal to the 1-based
\* position of a among its same-tag siblings
SegmentFormed(d, a, seg) ==
  /\ seg.tag = d.tagName[a]
  /\ seg.id = d.id[a]
  /\ Len(seg.classes) = Min(3, Len(d.className[a]))
  /\ \A k \in 1..Len(seg.classes) : seg.classes[k] = d.className[a][k]
  /\ seg.nth # 0 <=> \E c \in children(d, parentElement(d, a)) :
                       c # a /\ d.tagName[c] = d.tagName[a]
  /\ seg.nth # 0 =>
       seg.nth = Cardinality({ c \in children(d, parentElement(d, a)) :
                                 d.tagName[c] = d.tagName[a] /\ c <= a })

\* C33: the path of an element has one segment per level from just below
\* body down to the element, in that order, each formed as above, and the
\* positional suffix is an nth-of-type index: read by the selector engine,
\* the segment designates its own element.
C33_PathFormat ==
  \A e \in Elems(dom) \ {Html, Body} :
    LET path == generateDOMPath(dom, e)
    IN /\ Len(path) = LevelOf(dom, e)
       /\ \A k \in 1..Len(path) :
            /\ SegmentFormed(dom, AtLevel(dom, e, k), path[k])
            /\ MatchesCompound(dom, AtLevel(dom, e, k), path[k])

\* the same without the reading of the suffix by the selector engine
C33_SegmentsFormed ==
  \A e \in Elems(dom) \ {Html, Body} :
    LET path == generateDOMPath(dom, e)
    IN /\ Len(path) = LevelOf(dom, e)
       /\ \A k \in 1..Len(path) : SegmentFormed(dom, AtLevel(dom, e, k), path[k])

\* the messages of the last step that carry an element
ElementMessages ==
  { k \in 1..Len(out) : out[k].action \in {"elementSelected", "elementDataUpdate"} }

\* C34: the selected element is never a root container: selectedElement is
\* neither body nor the document element, and no element-selected or
\* element-data-update is emitted while a root container is selected.
C34_SelectedNeverRoot ==
  /\ selectedElement \notin {Body, Html}
  /\ ElementMessages # {} => selectedElement \notin {Body, Html}

\* the part the guards of the code give: arrow keys, smart-select and
\* apply-path never make a root container the selected element
C34_RootOnlyByClick ==
  [][(selectedElement \notin {Body, Html} /\ selectedElement' \in {Body, Html})
       => lastOp'.op = "click"]_vars

\* a root container was clicked and the session confirmed: element-selected
\* goes out for it
C34_RootEmitted ==
  /\ lastOp.op = "Enter"
  /\ selectedElement \in {Body, Html}
  /\ CountOf(out, "elementSelected") > 0

\* one parent/child/sibling step away from e, or e itself
OneStepFrom(d, e) ==
  {e} \cup ({ NavigationTarget(d, e, key) : key \in ArrowKeys } \ {Null})

\* C35: an arrow key pressed while Navigating is handled by exactly one
\* navigation handler, so selectedElement changes by at most one
\* parent/child/sibling step, whatever commands came before.
C35_OneKeyOneStep ==
  /\ [](isNavigatingMode => navHandlers = 1)
  /\ [][(isNavigatingMode /\ selectedElement # Null /\ lastOp'.op \in ArrowKeys)
          => selectedElement' \in OneStepFrom(dom, selectedElement)]_vars

\* the first half alone
C35_OneHandler == isNavigatingMode => navHandlers = 1

\* the second half alone
C35_OneStep ==
  [][(isNavigatingMode /\ selectedElement # Null /\ lastOp'.op \in ArrowKeys)
       => selectedElement' \in OneStepFrom(dom, selectedElement)]_vars

\* C36: the crosshair cursor startSelection sets is cleared on every return
\* to Idle: whenever the mode is Idle the page cursor is its default.
C36_CursorClearedInIdle == Mode = "Idle" => cursor = ""

\* the returns to Idle that go through stopSelection clear the cursor
C36_StopClearsCursor ==
  [][(Mode # "Idle" /\ Mode' = "Idle" /\ lastOp'.op \in {"Escape", "stopSelection"})
       => cursor' = ""]_vars

\* a session was confirmed with Enter and the crosshair is still set
C36_CrosshairAfterEnter ==
  /\ lastOp.op = "Enter"
  /\ Mode = "Idle"
  /\ cursor = "crosshair"

====
